---- MODULE Spec2Model ----
(***************************************************************************)
(* Model of the scoring engine of causaltune/cloud_scoring.py: the metric  *)
(* catalog (supported_metrics), the Scorer object (constructor, metric     *)
(* resolution, metric functions, make_scores) and the ranking function     *)
(* best_score_by_estimator.                                                *)
(*                                                                         *)
(* One behaviour is one caller session: a Scorer is constructed and then   *)
(* any sequence of calls is made on it.  Every call is one action; its     *)
(* arguments are kept in `args`, its outcome in `ret` / `raised` /         *)
(* `warnings`, and the caller's dataframe as it is after the call in       *)
(* `caller_df`.                                                            *)
(***************************************************************************)
EXTENDS Integers, Sequences, FiniteSets, TLC

VARIABLES
    pc,             \* "new" before Scorer.__init__, "ready" when the Scorer is idle,
                    \* "called" when a call has returned or raised, "failed" if __init__ raised
    problem,        \* Scorer.problem
    multivalue,     \* Scorer.multivalue
    psw_estimator,  \* Scorer.psw_estimator (with its propensity model), or Absent
    op,             \* name of the last operation called
    args,           \* its arguments
    ret,            \* its return value (None when it raised or returns nothing)
    raised,         \* the exception it raised, "none" otherwise
    warnings,       \* number of logging.warning calls it made
    caller_df,      \* the caller's dataframe object after the call
    pm_reads,       \* number of predict_proba calls the operation made
    swallowed,      \* the exceptions it caught and dropped
    recon,          \* number of potential-outcome reconstructions it made
    locals          \* the local variables of the call that the properties read

vars == <<pc, problem, multivalue, psw_estimator, op, args, ret, raised,
          warnings, caller_df, pm_reads, swallowed, recon, locals>>

(***************************************************************************)
(* Bounds                                                                  *)
(***************************************************************************)
MaxReport == 2      \* longest metrics_to_report list given to resolve_reported_metrics
MaxRows == 2        \* most rows of a dataframe
MaxRequested == 2   \* most metric names requested of make_scores in one call
MaxScores == 3      \* most records given to best_score_by_estimator
MaxValueRows == 3   \* most rows of a dataframe or series whose values are followed
MaxPolicyRows == 2  \* most rows given to the policy-risk arithmetic
MaxPoints == 3      \* most points given to the CODEC functions

(***************************************************************************)
(* Python values                                                           *)
(***************************************************************************)
\* None, and a list where None is possible (Optional[List[str]])
None == [none |-> TRUE, list |-> <<>>]
Some(xs) == [none |-> FALSE, list |-> xs]
IsNone(x) == DOMAIN x = DOMAIN None

\* `x in xs` for a Python list
Contains(xs, x) == \E i \in 1..Len(xs) : xs[i] = x

\* list.remove(x): drops the first occurrence
RECURSIVE Remove(_, _)
Remove(xs, x) ==
    IF xs = <<>> THEN <<>>
    ELSE IF Head(xs) = x THEN Tail(xs)
    ELSE <<Head(xs)>> \o Remove(Tail(xs), x)

\* set(xs)
ToSet(xs) == {xs[i] : i \in 1..Len(xs)}

\* `k in d` for a dict
HasKey(d, k) == k \in DOMAIN d

(***************************************************************************)
(* Metric names.  The universe is every name the catalog knows plus one    *)
(* name it does not know; NameOrder lists it in Python's str order, which  *)
(* is what sorted() uses.                                                  *)
(***************************************************************************)
NameOrder ==
    <<"ate", "auc", "bogus_metric", "codec", "energy_distance", "erupt",
      "frobenius_norm", "norm_erupt", "policy_risk", "prob_erupt",
      "psw_energy_distance", "qini">>

MetricNames == ToSet(NameOrder)

StrKey(s) == CHOOSE i \in 1..Len(NameOrder) : NameOrder[i] = s

\* sorted(list(S)) for a set of strings
RECURSIVE Sorted(_)
Sorted(S) ==
    IF S = {} THEN <<>>
    ELSE LET m == CHOOSE x \in S : \A y \in S : StrKey(x) <= StrKey(y)
         IN <<m>> \o Sorted(S \ {m})

Problems == {"backdoor", "iv", "frontdoor"}

(***************************************************************************)
(* supported_metrics(problem, multivalue, scores_only)                     *)
(* A problem that is neither "iv" nor "backdoor" falls off the end of the  *)
(* if/elif and the function returns None.                                  *)
(***************************************************************************)
supported_metrics(p, mv, scores_only) ==
    IF p = "iv" THEN
        Some(<<"energy_distance", "frobenius_norm", "codec">>
                \o (IF ~scores_only THEN <<"ate">> ELSE <<>>))
    ELSE IF p = "backdoor" THEN
        IF mv THEN Some(<<"energy_distance", "psw_energy_distance">>)
        ELSE Some(<<"erupt", "norm_erupt", "prob_erupt", "policy_risk",
                    "qini", "auc", "energy_distance", "psw_energy_distance",
                    "frobenius_norm", "codec">>
                      \o (IF ~scores_only THEN <<"ate">> ELSE <<>>))
    ELSE None

(***************************************************************************)
(* Scorer.resolve_metric(metric)                                           *)
(* `metric not in metrics` raises TypeError when metrics is None.          *)
(* Result: [ret, raised, warnings].                                        *)
(***************************************************************************)
\* variant: validates against the reporting catalog (scores_only=False)
resolve_metric_reporting_catalog(p, mv, metric) ==
    LET metrics == supported_metrics(p, mv, FALSE) IN
    IF metrics.none THEN
        [ret |-> None, raised |-> "TypeError", warnings |-> 0]
    ELSE IF ~Contains(metrics.list, metric) THEN
        [ret |-> "energy_distance", raised |-> "none", warnings |-> 1]
    ELSE
        [ret |-> metric, raised |-> "none", warnings |-> 0]

resolve_metric(p, mv, metric) ==
    LET metrics == supported_metrics(p, mv, TRUE) IN
    IF metrics.none THEN
        [ret |-> None, raised |-> "TypeError", warnings |-> 0]
    ELSE IF ~Contains(metrics.list, metric) THEN
        [ret |-> "energy_distance", raised |-> "none", warnings |-> 1]
    ELSE
        [ret |-> metric, raised |-> "none", warnings |-> 0]

(***************************************************************************)
(* Scorer.resolve_reported_metrics(metrics_to_report, scoring_metric)      *)
(* DropLoop is the for-loop over metrics_to_report.copy(): it walks the    *)
(* copy `todo` and removes from `lst`, counting the warnings.              *)
(***************************************************************************)
RECURSIVE DropLoop(_, _, _, _)
DropLoop(todo, lst, metrics, w) ==
    IF todo = <<>> THEN
        [ret |-> Some(lst), raised |-> "none", warnings |-> w]
    ELSE IF metrics.none THEN
        [ret |-> None, raised |-> "TypeError", warnings |-> w]
    ELSE IF ~Contains(metrics.list, Head(todo)) THEN
        DropLoop(Tail(todo), Remove(lst, Head(todo)), metrics, w + 1)
    ELSE
        DropLoop(Tail(todo), lst, metrics, w)

\* variant: the scoring metric is not added to the reported list
resolve_reported_metrics_without_scoring(p, mv, metrics_to_report, scoring_metric) ==
    LET metrics == supported_metrics(p, mv, FALSE) IN
    IF metrics_to_report.none THEN
        [ret |-> metrics, raised |-> "none", warnings |-> 0]
    ELSE
        LET lst == Sorted(ToSet(metrics_to_report.list))
        IN DropLoop(lst, lst, metrics, 0)

resolve_reported_metrics(p, mv, metrics_to_report, scoring_metric) ==
    LET metrics == supported_metrics(p, mv, FALSE) IN
    IF metrics_to_report.none THEN
        [ret |-> metrics, raised |-> "none", warnings |-> 0]
    ELSE
        LET lst == Sorted(ToSet(metrics_to_report.list
                                    \o <<scoring_metric>>))
        IN DropLoop(lst, lst, metrics, 0)


(***************************************************************************)
(* Dataframes.  A dataframe is its set of column names and its rows in     *)
(* order; a row maps the names of the columns whose values are followed to *)
(* those values.  The columns of an input dataframe are the treatment "T", *)
(* the outcome "Y", one effect modifier "X", optionally the instrument "Z" *)
(* and optionally the experimental flag "random".  The dataframes given to *)
(* the calls on a Scorer differ in their treatment column only.            *)
(***************************************************************************)
TreatmentValues == {0, 1}
BaseCols == {"T", "Y", "X"}

RowSeqs == UNION {[1..n -> TreatmentValues] : n \in 0..MaxRows}

\* a row over the columns `names` with treatment t and 0 everywhere else
BaseRow(names, t) == [c \in names |-> IF c = "T" THEN t ELSE 0]

InputDfs ==
    {[cols |-> BaseCols \cup extra,
      rows |-> [i \in 1..Len(rs) |-> BaseRow(BaseCols \cup extra, rs[i])]] :
        extra \in {{}, {"random"}}, rs \in RowSeqs}

NoDf == [cols |-> {}, rows |-> <<>>]

\* df[name] = ... for each name of `names`, for columns whose values are
\* not followed
AddCols(df, names) == [df EXCEPT !.cols = @ \cup names]

\* df[name] = vals
AddCol(df, name, vals) ==
    [cols |-> df.cols \cup {name},
     rows |-> [i \in 1..Len(df.rows) |-> (name :> vals[i]) @@ df.rows[i]]]

\* df[names].values: the rows restricted to the columns `names`
Project(rows, names) ==
    [i \in 1..Len(rows) |-> [c \in names |-> rows[i][c]]]

\* df.copy().reset_index(): the old index 0..n-1 becomes the column "index"
\* ("level_0" when a column "index" exists already)
\* variant: the copy loses its first row
CopyResetIndex_drop_row(df) ==
    LET name == IF "index" \in df.cols THEN "level_0" ELSE "index"
        full == AddCol(df, name, [i \in 1..Len(df.rows) |-> i - 1])
    IN [full EXCEPT !.rows = IF @ = <<>> THEN <<>> ELSE Tail(@)]

CopyResetIndex(df) ==
    LET name == IF "index" \in df.cols THEN "level_0" ELSE "index"
    IN AddCol(df, name, [i \in 1..Len(df.rows) |-> i - 1])

\* df[df[col] == v]
Group(df, col, v) ==
    [df EXCEPT !.rows = SelectSeq(@, LAMBDA r : r[col] = v)]

(***************************************************************************)
(* Estimates.  _treatment_name is a str or a list of str; cate_std is the  *)
(* standard deviation of effect(df) in units of 0.01; effect_tt gives the  *)
(* value of effect_tt(df) on a row from the row's effect modifier.         *)
(***************************************************************************)
StdValues == {0, 1, 2}
sd_threshold == 1           \* 1e-2, in units of 0.01
codec_threshold == 1        \* 0.01, in units of 0.01

ModifierValues == {0, 1}
NoEffect == [x \in ModifierValues |-> 0]

\* the estimates given to the calls on a Scorer
Estimates ==
    {[treatment_is_str |-> b, treatment_name |-> <<"T">>,
      outcome_name |-> "Y", effect_modifier_names |-> {"X"},
      cate_std |-> sd, identifier_method |-> "backdoor",
      estimating_instrument_names |-> <<>>, effect_tt |-> NoEffect] :
        b \in BOOLEAN, sd \in StdValues}

ResolveTreatmentName(est) ==
    IF est.treatment_is_str THEN est.treatment_name[1]
    ELSE Head(est.treatment_name)

(***************************************************************************)
(* Metric values.  np.inf and the literal 0 are the two sentinels; any     *)
(* other value is represented by the function that computed it and the     *)
(* data that function read: the rows and the columns it selected.          *)
(***************************************************************************)
Inf == [fn |-> "inf"]
Zero == [fn |-> "zero"]
Computed(fn, df, cols) ==
    [fn |-> fn, rows |-> Project(df.rows, cols), cols |-> cols]

\* What a metric function leaves behind: the dataframe object it was given,
\* its return value, the exception raised, and the numbers of predict_proba
\* calls and of potential-outcome reconstructions it made.
Frame(df, r, exc, reads, rc) ==
    [df |-> df, ret |-> r, raised |-> exc, reads |-> reads, recon |-> rc]

\* The same for a method of the Scorer, with self.psw_estimator as the
\* method leaves it.
MFrame(psw, df, r, exc, reads, rc) ==
    [psw |-> psw, df |-> df, ret |-> r, raised |-> exc, reads |-> reads,
     recon |-> rc]

(***************************************************************************)
(* Scorer._Y0_X_potential_outcomes(estimate, df)                           *)
(* The columns dy and yhat are assigned on the dataframe passed in; the    *)
(* deep copy Y0X is taken afterwards.                                      *)
(***************************************************************************)
\* variant: the split is on the treatment column whatever the method
Y0_X_potential_outcomes_split_on_treatment(est, df) ==
    LET treatment_name == ResolveTreatmentName(est)
        n == Len(df.rows)
        df1 == AddCol(df, "dy", [i \in 1..n |-> est.effect_tt[df.rows[i]["X"]]])
        df2 == AddCol(df1, "yhat",
                      [i \in 1..n |-> df1.rows[i][est.outcome_name]
                                        - df1.rows[i]["dy"]])
    IN [df |-> df2, Y0X |-> df2, treatment_name |-> treatment_name,
        split_test_by |-> treatment_name]

Y0_X_potential_outcomes(est, df) ==
    LET treatment_name == ResolveTreatmentName(est)
        n == Len(df.rows)
        df1 == AddCol(df, "dy", [i \in 1..n |-> est.effect_tt[df.rows[i]["X"]]])
        df2 == AddCol(df1, "yhat",
                      [i \in 1..n |-> df1.rows[i][est.outcome_name]
                                        - df1.rows[i]["dy"]])
        split_test_by ==
            IF est.identifier_method = "iv"
            THEN est.estimating_instrument_names[1]
            ELSE treatment_name
    IN [df |-> df2, Y0X |-> df2, treatment_name |-> treatment_name,
        split_test_by |-> split_test_by]

\* propensitymodel.predict_proba(X): one row per row of X and one column
\* per treatment class; an entry is represented by the features and the
\* class it is the probability of
PropensityFeatures == {"X"}

predict_proba(psw, df) ==
    [i \in 1..Len(df.rows) |->
        [c \in 0..psw.arms |->
            [x |-> [f \in PropensityFeatures |-> df.rows[i][f]],
             class |-> c]]]

\* YX_1_psw: for each row the column of its own treatment value
OwnTreatmentPsw(all_psw, df, treatment_name) ==
    [i \in 1..Len(df.rows) |-> all_psw[i][df.rows[i][treatment_name]]]

\* predict_proba(...)[:, 0]
ControlPsw(all_psw) == [i \in DOMAIN all_psw |-> all_psw[i][0]]

\* Scorer.energy_distance_score(estimate, df): the value is what
\* dcor.energy_distance makes of the two samples it is given
energy_distance_score(est, df) ==
    LET r == Y0_X_potential_outcomes(est, df)
        YX_1 == Group(r.Y0X, r.split_test_by, 1)
        YX_0 == Group(r.Y0X, r.split_test_by, 0)
        select_cols == est.effect_modifier_names \cup {"yhat"}
    IN Frame(r.df, [fn |-> "energy_distance",
                    x |-> Project(YX_1.rows, select_cols),
                    y |-> Project(YX_0.rows, select_cols)],
             "none", 0, 1)

(***************************************************************************)
(* Scorer.frobenius_norm_score(estimate, df, sd_threshold=1e-2)            *)
(* self.psw_estimator is read only after the two early returns; a Scorer   *)
(* without one raises AttributeError there.  The value is the normalised   *)
(* norm of the difference matrix D, represented by the rows and the        *)
(* weights D is made of.                                                   *)
(***************************************************************************)
\* variant: the groups are cut to their last min_rows rows
frobenius_norm_score_last_rows(psw, est, df) ==
    IF est.cate_std <= sd_threshold THEN MFrame(psw, df, Inf, "none", 0, 0)
    ELSE
        LET r == Y0_X_potential_outcomes(est, df)
            Y0X_1 == Group(r.Y0X, r.split_test_by, 1)
            Y0X_0 == Group(r.Y0X, r.split_test_by, 0)
            select_cols == est.effect_modifier_names \cup {"yhat"}
        IN IF Len(Y0X_1.rows) = 0 \/ Len(Y0X_0.rows) = 0
           THEN MFrame(psw, r.df, Inf, "none", 0, 1)
           ELSE IF ~psw.exists
           THEN MFrame(psw, r.df, None, "AttributeError", 0, 1)
           ELSE
               LET YX_1_psw == OwnTreatmentPsw(predict_proba(psw, Y0X_1),
                                               Y0X_1, r.treatment_name)
                   YX_0_psw == ControlPsw(predict_proba(psw, Y0X_0))
                   n1 == Len(Y0X_1.rows)
                   n0 == Len(Y0X_0.rows)
                   min_rows == IF n1 <= n0 THEN n1 ELSE n0
               IN MFrame(psw, r.df,
                         [fn |-> "frobenius_norm",
                          Y0X_1 |-> Project(SubSeq(Y0X_1.rows,
                                                   n1 - min_rows + 1, n1),
                                            select_cols),
                          Y0X_0 |-> Project(SubSeq(Y0X_0.rows,
                                                   n0 - min_rows + 1, n0),
                                            select_cols),
                          YX_1_psw |-> SubSeq(YX_1_psw, 1, min_rows),
                          YX_0_psw |-> SubSeq(YX_0_psw, 1, min_rows)],
                         "none", 2, 1)

frobenius_norm_score(psw, est, df) ==
    IF est.cate_std <= sd_threshold THEN MFrame(psw, df, Inf, "none", 0, 0)
    ELSE
        LET r == Y0_X_potential_outcomes(est, df)
            Y0X_1 == Group(r.Y0X, r.split_test_by, 1)
            Y0X_0 == Group(r.Y0X, r.split_test_by, 0)
            select_cols == est.effect_modifier_names \cup {"yhat"}
        IN IF Len(Y0X_1.rows) = 0 \/ Len(Y0X_0.rows) = 0
           THEN MFrame(psw, r.df, Inf, "none", 0, 1)
           ELSE IF ~psw.exists
           THEN MFrame(psw, r.df, None, "AttributeError", 0, 1)
           ELSE
               LET YX_1_psw == OwnTreatmentPsw(predict_proba(psw, Y0X_1),
                                               Y0X_1, r.treatment_name)
                   YX_0_psw == ControlPsw(predict_proba(psw, Y0X_0))
                   n1 == Len(Y0X_1.rows)
                   n0 == Len(Y0X_0.rows)
                   min_rows == IF n1 <= n0 THEN n1 ELSE n0
               IN MFrame(psw, r.df,
                         [fn |-> "frobenius_norm",
                          Y0X_1 |-> Project(SubSeq(Y0X_1.rows, 1, min_rows),
                                            select_cols),
                          Y0X_0 |-> Project(SubSeq(Y0X_0.rows, 1, min_rows),
                                            select_cols),
                          YX_1_psw |-> SubSeq(YX_1_psw, 1, min_rows),
                          YX_0_psw |-> SubSeq(YX_0_psw, 1, min_rows)],
                         "none", 2, 1)

\* variant: the weighting estimator is fitted again on every call
psw_energy_distance_refit(psw, est, df) ==
    LET r == Y0_X_potential_outcomes(est, df)
        Y0X_1 == Group(r.Y0X, r.split_test_by, 1)
        Y0X_0 == Group(r.Y0X, r.split_test_by, 0)
        select_cols == est.effect_modifier_names \cup {"yhat"}
    IN IF ~psw.exists THEN MFrame(psw, r.df, None, "AttributeError", 0, 1)
       ELSE MFrame([psw EXCEPT !.fits = 2], r.df,
                   [fn |-> "psw_energy_distance",
                    x |-> Project(Y0X_1.rows, select_cols),
                    y |-> Project(Y0X_0.rows, select_cols),
                    x_psw |-> OwnTreatmentPsw(predict_proba(psw, Y0X_1),
                                              Y0X_1, r.treatment_name),
                    y_psw |-> ControlPsw(predict_proba(psw, Y0X_0))],
                   "none", 2, 1)

\* Scorer.psw_energy_distance(estimate, df, normalise_features=False): the
\* value is made of the two samples and their weights
psw_energy_distance(psw, est, df) ==
    LET r == Y0_X_potential_outcomes(est, df)
        Y0X_1 == Group(r.Y0X, r.split_test_by, 1)
        Y0X_0 == Group(r.Y0X, r.split_test_by, 0)
        select_cols == est.effect_modifier_names \cup {"yhat"}
    IN IF ~psw.exists THEN MFrame(psw, r.df, None, "AttributeError", 0, 1)
       ELSE MFrame(psw, r.df,
                   [fn |-> "psw_energy_distance",
                    x |-> Project(Y0X_1.rows, select_cols),
                    y |-> Project(Y0X_0.rows, select_cols),
                    x_psw |-> OwnTreatmentPsw(predict_proba(psw, Y0X_1),
                                              Y0X_1, r.treatment_name),
                    y_psw |-> ControlPsw(predict_proba(psw, Y0X_0))],
                   "none", 2, 1)

(***************************************************************************)
(* Scorer.policy_risk_score(estimate, df, cate_estimate, outcome_name)     *)
(* predict_ok = FALSE is the case where the propensity model rejects the   *)
(* columns ['random'] + effect modifiers it is given.  The weight and      *)
(* policy_treatment columns go to the copy rct_df.                         *)
(***************************************************************************)
\* variant: the propensity model is consulted before the standard deviation
\* is looked at
policy_risk_score_propensity_first(psw, est, df, predict_ok) ==
    IF ~psw.exists THEN MFrame(psw, df, None, "AttributeError", 0, 0)
    ELSE IF "random" \notin df.cols THEN MFrame(psw, df, None, "KeyError", 0, 0)
    ELSE IF ~predict_ok THEN MFrame(psw, df, None, "ValueError", 1, 0)
    ELSE IF est.cate_std <= sd_threshold THEN MFrame(psw, df, Zero, "none", 1, 0)
    ELSE MFrame(psw, df, Computed("policy_risk", df,
                            {"random"} \cup est.effect_modifier_names
                                \cup {est.outcome_name, "T"}),
               "none", 1, 0)

policy_risk_score(psw, est, df, predict_ok) ==
    IF est.cate_std <= sd_threshold THEN MFrame(psw, df, Zero, "none", 0, 0)
    ELSE IF ~psw.exists THEN MFrame(psw, df, None, "AttributeError", 0, 0)
    ELSE IF "random" \notin df.cols THEN MFrame(psw, df, None, "KeyError", 0, 0)
    ELSE IF ~predict_ok THEN MFrame(psw, df, None, "ValueError", 1, 0)
    ELSE MFrame(psw, df, Computed("policy_risk", df,
                            {"random"} \cup est.effect_modifier_names
                                \cup {est.outcome_name, "T"}),
               "none", 1, 0)

\* Scorer.identify_confounders(df, treatment_col, outcome_col)
identify_confounders(df, treatment_col, outcome_col) ==
    {col \in df.cols :
        col \notin {treatment_col, outcome_col, "random", "index"}}

(***************************************************************************)
(* Scorer.codec_score(estimate, df)                                        *)
(* The confounders are read off df before dy and yhat are assigned on it.  *)
(* The value is what Scorer.codec makes of the three samples Y, Z and X.   *)
(***************************************************************************)
codec_score(est, df) ==
    LET treatment_name == ResolveTreatmentName(est)
        confounders ==
            identify_confounders(df, treatment_name, est.outcome_name)
        n == Len(df.rows)
        df0 == AddCol(df, "dy", [i \in 1..n |-> est.effect_tt[df.rows[i]["X"]]])
        df1 == AddCol(df0, "yhat",
                      [i \in 1..n |-> df0.rows[i][est.outcome_name]
                                        - df0.rows[i]["dy"]])
    IN IF est.cate_std < codec_threshold THEN Frame(df1, Inf, "none", 0, 1)
       ELSE Frame(df1, [fn |-> "codec",
                        Y |-> [i \in 1..n |-> df1.rows[i]["yhat"]],
                        Z |-> [i \in 1..n |-> df1.rows[i][treatment_name]],
                        X |-> Project(df1.rows, confounders),
                        confounders |-> confounders],
                  "none", 0, 1)

(***************************************************************************)
(* ERUPT (causaltune.erupt): score, weights and probabilistic_erupt_score  *)
(* use the propensity model they were given without fitting it.            *)
(***************************************************************************)
erupt_score(fn, df, policy) ==
    [fn |-> fn, rows |-> Project(df.rows, {"T", "Y"}), policy |-> policy]

(***************************************************************************)
(* Scorer.make_scores(estimate, df, metrics_to_report)                     *)
(* The body is a sequence of steps over the working state                  *)
(*   [psw, df, out, values, raised, swallowed, reads, recon]               *)
(* where df is the private copy, out the record under construction and     *)
(* values the diagnostic table.  A step is skipped once an exception is    *)
(* pending.  The dataframe the caller passed is left as it is: df is       *)
(* rebound to the copy on entry.                                           *)
(***************************************************************************)
EmptyDict == [k \in {} |-> None]

\* out[key] = r.ret for the result r of a metric function run on s.df
Store(s, key, r) ==
    [s EXCEPT !.psw = IF HasKey(r, "psw") THEN r.psw ELSE @,
              !.df = r.df,
              !.out = IF r.raised = "none" THEN (key :> r.ret) @@ @ ELSE @,
              !.raised = r.raised,
              !.reads = @ + r.reads,
              !.recon = @ + r.recon]

\* if key in metrics_to_report: out[key] = ...
Step(s, metrics_to_report, key, r) ==
    IF s.raised # "none" \/ key \notin metrics_to_report THEN s
    ELSE Store(s, key, r)

\* variant: no try/except around policy_risk_score
PolicyRiskStep_propagate(s, metrics_to_report, r) ==
    IF s.raised # "none" \/ "policy_risk" \notin metrics_to_report THEN s
    ELSE Store(s, "policy_risk", r)

\* the try/except Exception around policy_risk_score
PolicyRiskStep(s, metrics_to_report, r) ==
    IF s.raised # "none" \/ "policy_risk" \notin metrics_to_report THEN s
    ELSE IF r.raised # "none"
    THEN [s EXCEPT !.psw = r.psw, !.reads = @ + r.reads,
                   !.swallowed = @ \cup {r.raised}]
    ELSE Store(s, "policy_risk", r)

\* values = df[[treatment_name, outcome_name]] and, when the ATE is a
\* scalar, the columns p, policy, norm_policy and weights
ValuesStep(s, treatment_name, outcome_name) ==
    LET values == [cols |-> {treatment_name, outcome_name},
                   rows |-> Project(s.df.rows,
                                    {treatment_name, outcome_name})]
    IN IF s.psw.arms = 1
       THEN [s EXCEPT !.values = AddCols(values, {"p", "policy",
                                                  "norm_policy", "weights"}),
                      !.reads = @ + 1]
       ELSE [s EXCEPT !.values = values]

\* norm_erupt reads values["norm_policy"], which exists only when the ATE
\* is a scalar
NormEruptStep(s, metrics_to_report) ==
    IF s.raised # "none" \/ "norm_erupt" \notin metrics_to_report THEN s
    ELSE IF "norm_policy" \notin s.values.cols
    THEN [s EXCEPT !.raised = "KeyError"]
    ELSE Store(s, "norm_erupt",
               Frame(s.df, erupt_score("norm_erupt", s.df, "cate > ate"),
                     "none", 0, 0))

\* assert len(values) == len(df); out["values"] = values.copy()
AssertValuesStep(s) ==
    IF s.raised # "none" THEN s
    ELSE IF Len(s.values.rows) # Len(s.df.rows)
    THEN [s EXCEPT !.raised = "AssertionError"]
    ELSE [s EXCEPT !.out = ("values" :> s.values) @@ @]

\* out["ate"] = cate_estimate.mean(); out["ate_std"] = cate_estimate.std()
AteStep(s, metrics_to_report, est) ==
    IF s.raised # "none" \/ "ate" \notin metrics_to_report THEN s
    ELSE [s EXCEPT !.out = ("ate" :> [fn |-> "mean", n |-> Len(s.df.rows)])
                           @@ ("ate_std" :> [fn |-> "std",
                                            std |-> est.cate_std]) @@ @]

\* The statements of make_scores in program order; the first nine are the
\* body of `if self.problem == "backdoor"`.
BackdoorBlock ==
    <<"values", "erupt", "norm_erupt", "prob_erupt", "frobenius_norm",
      "policy_risk", "qini", "auc", "assert_values">>

CommonBlock == <<"ate", "energy_distance", "psw_energy_distance", "codec">>

\* one statement, run on the working state s
Statement(name, s, est, metrics_to_report, predict_ok) ==
    CASE name = "values" ->
            ValuesStep(s, ResolveTreatmentName(est), est.outcome_name)
      [] name = "erupt" ->
            Step(s, metrics_to_report, "erupt",
                 Frame(s.df, erupt_score("erupt", s.df, "cate > 0"),
                       "none", 0, 0))
      [] name = "norm_erupt" -> NormEruptStep(s, metrics_to_report)
      [] name = "prob_erupt" ->
            Step(s, metrics_to_report, "prob_erupt",
                 Frame(s.df, erupt_score("prob_erupt", s.df, "cate, std"),
                       "none", 0, 0))
      [] name = "frobenius_norm" ->
            Step(s, metrics_to_report, "frobenius_norm",
                 frobenius_norm_score(s.psw, est, s.df))
      [] name = "policy_risk" ->
            PolicyRiskStep(s, metrics_to_report,
                           policy_risk_score(s.psw, est, s.df, predict_ok))
      [] name = "qini" ->
            Step(s, metrics_to_report, "qini",
                 Frame(s.df, [fn |-> "qini",
                              rows |-> Project(s.df.rows, {"T", "Y"})],
                       "none", 0, 0))
      [] name = "auc" ->
            Step(s, metrics_to_report, "auc",
                 Frame(s.df, [fn |-> "auc",
                              rows |-> Project(s.df.rows, {"T", "Y"})],
                       "none", 0, 0))
      [] name = "assert_values" -> AssertValuesStep(s)
      [] name = "ate" -> AteStep(s, metrics_to_report, est)
      [] name = "energy_distance" ->
            Step(s, metrics_to_report, "energy_distance",
                 energy_distance_score(est, s.df))
      [] name = "psw_energy_distance" ->
            Step(s, metrics_to_report, "psw_energy_distance",
                 psw_energy_distance(s.psw, est, s.df))
      [] name = "codec" ->
            Step(s, metrics_to_report, "codec", codec_score(est, s.df))

\* the statements from the i-th on, each run on the state the one before
\* left
RECURSIVE RunFrom(_, _, _, _, _, _)
RunFrom(i, stmts, s, est, metrics_to_report, predict_ok) ==
    IF i > Len(stmts) THEN s
    ELSE CHOOSE r \in {RunFrom(i + 1, stmts, t, est, metrics_to_report,
                               predict_ok) :
                          t \in {Statement(stmts[i], s, est,
                                           metrics_to_report, predict_ok)}} :
            TRUE

make_scores(p, psw, est, df, metrics_to_report, predict_ok) ==
    LET s0 == [psw |-> psw, df |-> CopyResetIndex(df), out |-> EmptyDict,
               values |-> NoDf, raised |-> "none", swallowed |-> {},
               reads |-> 0, recon |-> 0]
        stmts == (IF p = "backdoor" THEN BackdoorBlock ELSE <<>>)
                     \o CommonBlock
    IN CHOOSE r \in
          {[psw |-> s.psw, df |-> df,
            ret |-> IF s.raised = "none" THEN s.out ELSE None,
            raised |-> s.raised, swallowed |-> s.swallowed,
            reads |-> s.reads, recon |-> s.recon] :
              s \in {RunFrom(1, stmts, s0, est, metrics_to_report,
                             predict_ok)}} : TRUE

(***************************************************************************)
(* Scorer.best_score_by_estimator(scores, metric)                          *)
(* scores is the list of the dict's values in insertion order.  A record   *)
(* is a dict that may hold "estimator_name" and may hold the metric.       *)
(***************************************************************************)
\* variant: policy_risk is ranked as higher-is-better
LowerIsBetter_without_policy_risk ==
    {"energy_distance", "psw_energy_distance", "frobenius_norm", "codec"}

\* the list in the conditional expression of best_score_by_estimator
LowerIsBetter ==
    {"energy_distance", "psw_energy_distance", "frobenius_norm", "codec",
     "policy_risk"}

\* min(xs, key=...) / max(xs, key=...): the first element with the least /
\* greatest key
RECURSIVE PyBest(_, _, _)
PyBest(xs, metric, lower) ==
    IF Len(xs) = 1 THEN xs[1]
    ELSE LET b == PyBest(SubSeq(xs, 1, Len(xs) - 1), metric, lower)
             x == xs[Len(xs)]
         IN IF lower THEN (IF x[metric] < b[metric] THEN x ELSE b)
            ELSE (IF x[metric] > b[metric] THEN x ELSE b)

\* variant: only the first record is checked for "estimator_name"
best_score_by_estimator_check_first(scores, metric) ==
    IF Len(scores) > 0 /\ ~HasKey(scores[1], "estimator_name")
    THEN [ret |-> None, raised |-> "ValueError"]
    ELSE
        LET named == SelectSeq(scores,
                               LAMBDA v : HasKey(v, "estimator_name"))
            estimator_names ==
                {named[i]["estimator_name"] : i \in 1..Len(named)}
            est_scores(name) ==
                SelectSeq(named, LAMBDA v : v["estimator_name"] = name)
        IN IF \E i \in 1..Len(named) : ~HasKey(named[i], metric)
           THEN [ret |-> None, raised |-> "KeyError"]
           ELSE [ret |-> [name \in estimator_names |->
                            PyBest(est_scores(name), metric,
                                   metric \in LowerIsBetter)],
                 raised |-> "none"]

best_score_by_estimator(scores, metric) ==
    IF \E i \in 1..Len(scores) : ~HasKey(scores[i], "estimator_name")
    THEN [ret |-> None, raised |-> "ValueError"]
    ELSE
        LET named == SelectSeq(scores,
                               LAMBDA v : HasKey(v, "estimator_name"))
            estimator_names ==
                {named[i]["estimator_name"] : i \in 1..Len(named)}
            est_scores(name) ==
                SelectSeq(named, LAMBDA v : v["estimator_name"] = name)
        IN \* x[metric] is evaluated on every record of every family
           IF \E i \in 1..Len(named) : ~HasKey(named[i], metric)
           THEN [ret |-> None, raised |-> "KeyError"]
           ELSE [ret |-> [name \in estimator_names |->
                            PyBest(est_scores(name), metric,
                                   metric \in LowerIsBetter)],
                 raised |-> "none"]

(***************************************************************************)
(* Numbers.  A float that the properties read is an exact fraction         *)
(* [num, den] in lowest terms with den > 0; NaN is 0/0.  Arrays are        *)
(* 0-based: functions on 0..n-1.                                           *)
(***************************************************************************)
Abs(a) == IF a < 0 THEN -a ELSE a

RECURSIVE Gcd(_, _)
Gcd(a, b) == IF b = 0 THEN a ELSE Gcd(b, a % b)

NaN == [num |-> 0, den |-> 0]
IsNaN(q) == q.den = 0

Rat(a, b) ==
    IF b = 0 THEN NaN
    ELSE LET g == Gcd(Abs(a), Abs(b))
             sgn == IF b < 0 THEN -1 ELSE 1
         IN [num |-> sgn * (a \div g), den |-> sgn * (b \div g)]

RatAdd(p, q) ==
    IF IsNaN(p) \/ IsNaN(q) THEN NaN
    ELSE Rat(p.num * q.den + q.num * p.den, p.den * q.den)

RatSub(p, q) ==
    IF IsNaN(p) \/ IsNaN(q) THEN NaN
    ELSE Rat(p.num * q.den - q.num * p.den, p.den * q.den)

RatMul(p, q) ==
    IF IsNaN(p) \/ IsNaN(q) THEN NaN ELSE Rat(p.num * q.num, p.den * q.den)

\* p / q for arrays of floats: 0/0 is NaN (the properties divide by 0 in no
\* other case)
RatDiv(p, q) ==
    IF IsNaN(p) \/ IsNaN(q) THEN NaN ELSE Rat(p.num * q.den, p.den * q.num)

RatLeq(p, q) == p.num * q.den <= q.num * p.den

ALen(a) == Cardinality(DOMAIN a)

\* a.sum() for an array of integers
ASum(a) ==
    LET n == ALen(a)
        s[k \in 0..n] == IF k = 0 THEN 0 ELSE s[k - 1] + a[k - 1]
    IN s[n]

\* a.sum() for an array of fractions
RatSum(a) ==
    LET n == ALen(a)
        s[k \in 0..n] == IF k = 0 THEN Rat(0, 1) ELSE RatAdd(s[k - 1], a[k - 1])
    IN s[n]

\* a[mask]: the entries of a where mask holds, in order
Masked(a, mask) ==
    LET keep == {i \in DOMAIN a : mask[i]}
        nth(k) == CHOOSE i \in keep : Cardinality({j \in keep : j < i}) = k
    IN [k \in 0..(Cardinality(keep) - 1) |-> a[nth(k)]]

\* Series.mean(): NaN for an empty series
Mean(a) == Rat(ASum(a), ALen(a))

(***************************************************************************)
(* Scorer.naive_ate(treatment, outcome)                                    *)
(* The second component is a standard error, represented by the two        *)
(* samples it is computed from.                                            *)
(***************************************************************************)
\* variant: the third component is the number of treated rows
naive_ate_treated_count(treatment, outcome) ==
    LET is1 == [i \in DOMAIN treatment |-> treatment[i] = 1]
        is0 == [i \in DOMAIN treatment |-> treatment[i] = 0]
        treated == ALen(Masked(treatment, is1))
        mean_ == RatSub(Mean(Masked(outcome, is1)), Mean(Masked(outcome, is0)))
        std_ == [fn |-> "std_", treated |-> Masked(outcome, is1),
                 control |-> Masked(outcome, is0)]
    IN [ret |-> <<mean_, std_, treated>>, raised |-> "none"]

naive_ate(treatment, outcome) ==
    LET is1 == [i \in DOMAIN treatment |-> treatment[i] = 1]
        is0 == [i \in DOMAIN treatment |-> treatment[i] = 0]
        treated == ALen(Masked(treatment, is1))
        mean_ == RatSub(Mean(Masked(outcome, is1)), Mean(Masked(outcome, is0)))
        std_ == [fn |-> "std_", treated |-> Masked(outcome, is1),
                 control |-> Masked(outcome, is0)]
    IN [ret |-> <<mean_, std_, ALen(treatment)>>, raised |-> "none"]

(***************************************************************************)
(* Scorer.policy_risk_score, from the clipping of the propensity scores    *)
(* on: the arithmetic on the treatment column, the outcome column, the     *)
(* policy's assignment policy(cate_estimate) and the propensity scores,    *)
(* with rct_indices = df.index.                                            *)
(***************************************************************************)
clip == Rat(1, 20)

\* np.clip(propensity_scores, clip, 1 - clip)
Clip(p) ==
    IF RatLeq(p, clip) THEN clip
    ELSE IF RatLeq(RatSub(Rat(1, 1), clip), p) THEN RatSub(Rat(1, 1), clip)
    ELSE p

\* np.where(df[treatment_name] == 1, 1 / p, 1 / (1 - p))
ipw_weights(treatment, propensity_scores) ==
    [i \in DOMAIN treatment |->
        IF treatment[i] = 1 THEN RatDiv(Rat(1, 1), Clip(propensity_scores[i]))
        ELSE RatDiv(Rat(1, 1),
                    RatSub(Rat(1, 1), Clip(propensity_scores[i])))]

\* (outcome * (treatment == arm) * (policy_treatment == arm) * weight).sum()
\*     / weight.sum() * (policy_treatment == arm).mean()
policy_value_arm(treatment, outcome, policy_treatment, weight, arm) ==
    LET term == [i \in DOMAIN treatment |->
                    IF treatment[i] = arm /\ policy_treatment[i] = arm
                    THEN RatMul(Rat(outcome[i], 1), weight[i])
                    ELSE Rat(0, 1)]
        agree == [i \in DOMAIN policy_treatment |->
                    IF policy_treatment[i] = arm THEN 1 ELSE 0]
    IN RatMul(RatDiv(RatSum(term), RatSum(weight)), Mean(agree))

policy_risk_value(treatment, outcome, policy_treatment, propensity_scores) ==
    LET weights == ipw_weights(treatment, propensity_scores)
        value_policy ==
            RatAdd(policy_value_arm(treatment, outcome, policy_treatment,
                                    weights, 1),
                   policy_value_arm(treatment, outcome, policy_treatment,
                                    weights, 0))
    IN [ret |-> RatSub(Rat(1, 1), value_policy), raised |-> "none"]

(***************************************************************************)
(* CODEC.  A vector is [ndim |-> 1, a |-> values], a matrix is             *)
(* [ndim |-> 2, a |-> rows] with a row a tuple of coordinates; Y is always *)
(* a plain vector of values.  Distances are compared through their         *)
(* squares.  An operator of this part gives the set of the outcomes the    *)
(* call can have: the random draws, the order in which the neighbour       *)
(* search lists points at equal distance and the order in which argsort    *)
(* lists equal values are not fixed by the code.                           *)
(***************************************************************************)
Vector(a) == [ndim |-> 1, a |-> a]
Matrix(a) == [ndim |-> 2, a |-> a]

SqDist(u, v) ==
    LET s[k \in 0..Len(u)] ==
            IF k = 0 THEN 0
            ELSE s[k - 1] + (u[k] - v[k]) * (u[k] - v[k])
    IN s[Len(u)]

\* the k-th smallest member of a set of indices, k counted from 0
Nth(S, k) == CHOOSE i \in S : Cardinality({j \in S : j < i}) = k

\* the members of a set of indices in increasing order, as an array
Ascending(S) == [k \in 0..(Cardinality(S) - 1) |-> Nth(S, k)]

\* variant: the draw is used as it is, without stepping over the own position
randomNN_no_shift(ids) ==
    LET m == ALen(ids)
    IN IF m < 2 THEN [raised |-> "ValueError", draws |-> {}]
       ELSE [raised |-> "none",
             draws |-> {[k \in 0..(m - 1) |-> ids[x[k]]] :
                           x \in [0..(m - 1) -> 0..(m - 2)]}]

\* Scorer.randomNN(ids): np.random.choice(m - 1, m) raises ValueError for
\* m = 1
randomNN(ids) ==
    LET m == ALen(ids)
    IN IF m < 2 THEN [raised |-> "ValueError", draws |-> {}]
       ELSE [raised |-> "none",
             draws |-> {[k \in 0..(m - 1) |->
                            ids[x[k] + (IF x[k] >= k THEN 1 ELSE 0)]] :
                           x \in [0..(m - 1) -> 0..(m - 2)]}]

\* One row of NearestNeighbors(n_neighbors=3).kneighbors: three distinct
\* points, nearest first, none of the others nearer than the third
KnnRows(P, i) ==
    LET n == ALen(P)
        d(j) == SqDist(P[i], P[j])
    IN {t \in [0..2 -> 0..(n - 1)] :
           /\ t[0] # t[1] /\ t[0] # t[2] /\ t[1] # t[2]
           /\ d(t[0]) <= d(t[1]) /\ d(t[1]) <= d(t[2])
           /\ \A j \in 0..(n - 1) :
                 j \notin {t[0], t[1], t[2]} => d(j) >= d(t[2])}

\* the rows for the points 0..i, as a tuple: a query point with the
\* coordinates of an earlier one gets the same row, the search being a
\* function of the coordinates it is asked about
RECURSIVE KnnUpTo(_, _)
KnnUpTo(P, i) ==
    IF i < 0 THEN {<<>>}
    ELSE UNION {
            {Append(g, t) :
                t \in (IF \E j \in 0..(i - 1) : P[j] = P[i]
                       THEN {g[(CHOOSE j \in 0..(i - 1) : P[j] = P[i]) + 1]}
                       ELSE KnnRows(P, i))} :
            g \in KnnUpTo(P, i - 1)}

\* nn.kneighbors(P): the possible index tables nn_indices
kneighbors(P) ==
    {[i \in 0..(ALen(P) - 1) |-> g[i + 1]] : g \in KnnUpTo(P, ALen(P) - 1)}

\* helper_ties(a), closed over the matrix H
helper_ties(H, a) ==
    LET n == ALen(H)
        orig(x) == x + (IF x >= a THEN 1 ELSE 0)
        dist(x) == SqDist(H[a], H[orig(x)])
        ids == {x \in 0..(n - 2) : \A y \in 0..(n - 2) : dist(x) <= dist(y)}
    IN {orig(x) : x \in ids}

(***************************************************************************)
(* The neighbour search of estimateConditionalQ and estimateConditionalS   *)
(* on the points P: kneighbors, the repeated data, the ties.  H is the     *)
(* matrix helper_ties is closed over.  defines_helper: the search carries  *)
(* the definition of helper_ties under `if len(ties) > 0` (the second      *)
(* search of estimateConditionalQ does not); helper_bound: the name        *)
(* helper_ties is bound before the search.  The outcome holds the final    *)
(* nn_index, or the exception, and whether the name is bound afterwards;   *)
(* calling the unbound name is a NameError.                                *)
(***************************************************************************)
\* the tuples that take their k-th member from the k-th set of cs
RECURSIVE Combinations(_)
Combinations(cs) ==
    IF cs = <<>> THEN {<<>>}
    ELSE UNION {{<<c>> \o g : c \in cs[1], g \in Combinations(t)} :
                   t \in {Tail(cs)}}

\* the search on one index table
SearchOn(P, H, defines_helper, helper_bound, nn_indices) ==
    LET n == ALen(P)
        nn_dists(i, c) == SqDist(P[i], P[nn_indices[i][c]])
        repeat_data == {i \in 0..(n - 1) : nn_dists(i, 1) = 0}
        group(i) == Ascending({j \in repeat_data :
                                  nn_indices[j][0] = nn_indices[i][0]})
        position(i) == Cardinality({j \in repeat_data :
                                       /\ nn_indices[j][0] = nn_indices[i][0]
                                       /\ j < i})
        ties == {i \in 0..(n - 1) : nn_dists(i, 1) = nn_dists(i, 2)}
                    \ repeat_data
        bound == helper_bound \/ (defines_helper /\ ties # {})
        \* what nn_index[i] can be in the end
        choices(i) ==
            IF i \in repeat_data
            THEN {r[position(i)] : r \in randomNN(group(i)).draws}
            ELSE IF i \in ties THEN helper_ties(H, i)
            ELSE {nn_indices[i][1]}
        RECURSIVE choicesUpTo(_)
        choicesUpTo(i) ==
            IF i < 0 THEN <<>> ELSE Append(choicesUpTo(i - 1), choices(i))
    IN IF \E i \in repeat_data : randomNN(group(i)).raised # "none"
       THEN {[nn_index |-> None, raised |-> "ValueError", bound |-> bound]}
       ELSE IF ties # {} /\ ~bound
       THEN {[nn_index |-> None, raised |-> "NameError", bound |-> bound]}
       ELSE \* the draws being independent, nn_index is any combination
            {[nn_index |-> [i \in 0..(n - 1) |-> g[i + 1]],
              raised |-> "none", bound |-> bound] :
                g \in UNION {Combinations(cs) : cs \in {choicesUpTo(n - 1)}}}

NeighbourSearch(P, H, defines_helper, helper_bound) ==
    IF ALen(P) < 3
    THEN {[nn_index |-> None, raised |-> "ValueError", bound |-> FALSE]}
    ELSE UNION {SearchOn(P, H, defines_helper, helper_bound, t) :
                   t \in kneighbors(P)}

\* the orders, as tuples, in which the indices `rest` list a in
\* non-decreasing order: any index of a least value first
RECURSIVE SortedOrders(_, _)
SortedOrders(a, rest) ==
    IF rest = {} THEN {<<>>}
    ELSE UNION {{<<i>> \o g : g \in SortedOrders(a, rest \ {i})} :
                   i \in {j \in rest : \A k \in rest : a[j] <= a[k]}}

\* np.argsort(a): the permutations that list a in non-decreasing order
argsort(a) ==
    {[i \in DOMAIN a |-> g[i + 1]] : g \in SortedOrders(a, DOMAIN a)}

\* np.argsort(np.argsort(Y))
Ranks(Y) == UNION {argsort(p) : p \in argsort(Y)}

\* np.sum(np.minimum(R_Y, R_Y[nn_index]))
SumMin(R_Y, nn_index) ==
    ASum([i \in DOMAIN R_Y |->
             IF R_Y[i] <= R_Y[nn_index[i]] THEN R_Y[i]
             ELSE R_Y[nn_index[i]]])

\* Z.reshape(-1, 1)
ReshapeColumn(Z) ==
    IF Z.ndim = 1 THEN [i \in DOMAIN Z.a |-> <<Z.a[i]>>]
    ELSE LET n == ALen(Z.a)
             q == IF n = 0 THEN 0 ELSE Len(Z.a[0])
         IN [k \in 0..(n * q - 1) |-> <<Z.a[k \div q][(k % q) + 1]>>]

(***************************************************************************)
(* Scorer.estimateConditionalS(Y, X)                                       *)
(* NearestNeighbors.fit rejects an X that is not a matrix.                 *)
(***************************************************************************)
estimateConditionalS(Y, X) ==
    LET n == ALen(Y)
    IN IF X.ndim # 2
       THEN {[ret |-> None, raised |-> "ValueError", locals |-> None]}
       ELSE {IF sx.raised # "none"
             THEN [ret |-> None, raised |-> sx.raised, locals |-> None]
             ELSE [ret |-> Rat(ASum(R_Y) - SumMin(R_Y, sx.nn_index), n * n),
                   raised |-> "none",
                   locals |-> [nn_index_X |-> sx.nn_index, R_Y |-> R_Y]] :
                sx \in NeighbourSearch(X.a, X.a, TRUE, FALSE),
                R_Y \in Ranks(Y)}

(***************************************************************************)
(* Scorer.estimateConditionalQ(Y, X, Z)                                    *)
(* np.hstack rejects an X that is not a matrix and a column Z of another   *)
(* height.  The second search is on W; its helper_ties is the one the      *)
(* first search defined, closed over X.  An outcome holds the value        *)
(* returned or the exception, and the local variable `local`               *)
(* ("nn_index_X" or "nn_index_W") as far as it was assigned.               *)
(***************************************************************************)
\* the outcomes on the outcomes nsx and nsw of the two searches
QOutcomes(Y, nsx, nsw, local) ==
    LET n == ALen(Y)
        okX == {s.nn_index : s \in {t \in nsx : t.raised = "none"}}
        okW == {s.nn_index : s \in {t \in nsw : t.raised = "none"}}
        seen(name, nn_index) ==
            IF local = name THEN name :> nn_index ELSE None
    IN UNION {
        {[ret |-> None, raised |-> s.raised, locals |-> None] :
            s \in {t \in nsx : t.raised # "none"}},
        {[ret |-> None, raised |-> s.raised,
          locals |-> seen("nn_index_X", x)] :
            s \in {t \in nsw : t.raised # "none"}, x \in okX},
        UNION {
            IF local = "nn_index_X"
            THEN {[ret |-> Rat(a - p[1], n * n), raised |-> "none",
                   locals |-> seen("nn_index_X", p[2])] :
                     p \in {<<SumMin(R_Y, x), x>> : x \in okX},
                     a \in {SumMin(R_Y, w) : w \in okW}}
            ELSE {[ret |-> Rat(p[1] - a, n * n), raised |-> "none",
                   locals |-> seen("nn_index_W", p[2])] :
                     p \in {<<SumMin(R_Y, w), w>> : w \in okW},
                     a \in {SumMin(R_Y, x) : x \in okX}} :
            R_Y \in Ranks(Y)}}

estimateConditionalQ(Y, X, Z, local) ==
    LET Zc == ReshapeColumn(Z)
    IN IF X.ndim # 2 \/ ALen(X.a) # ALen(Zc)
       THEN {[ret |-> None, raised |-> "ValueError", locals |-> None]}
       ELSE
           LET W == [i \in DOMAIN X.a |-> X.a[i] \o Zc[i]]
           IN UNION {
                UNION {QOutcomes(Y, nsx, nsw, local) :
                    nsx \in {{s \in NeighbourSearch(X.a, X.a, TRUE, FALSE) :
                                 s.bound = bound}},
                    nsw \in {NeighbourSearch(W, X.a, FALSE, bound)}} :
                bound \in BOOLEAN}

\* what a call returns or raises, its variables being gone
Returned(outcomes) == {[ret |-> r.ret, raised |-> r.raised] : r \in outcomes}

(***************************************************************************)
(* Scorer.estimateConditionalT(Y, Z, X)                                    *)
(* estimateConditionalQ is called when S is not 0.                         *)
(***************************************************************************)
estimateConditionalT(Y, Z, X) ==
    {IF s.raised # "none" THEN s
     ELSE IF s.ret.num = 0 THEN [ret |-> Rat(1, 1), raised |-> "none"]
     ELSE IF q.raised # "none" THEN q
     ELSE [ret |-> RatDiv(q.ret, s.ret), raised |-> "none"] :
        s \in Returned(estimateConditionalS(Y, X)),
        q \in Returned(estimateConditionalQ(Y, X, Z, "nn_index_X"))}

(***************************************************************************)
(* Scorer.codec(Y, Z, X=None, na_rm=True), on arrays without NaN.  With    *)
(* X = None the mask np.all(np.isfinite(Z), axis=1) needs a matrix Z, and  *)
(* Z then goes to estimateConditionalQ as X with an n-by-0 matrix as Z.    *)
(***************************************************************************)
codec(Y, Z, X) ==
    LET n == ALen(Y)
        fails(exc) == {[ret |-> None, raised |-> exc]}
    IN IF IsNone(X) THEN
           IF n # ALen(Z.a) THEN fails("ValueError")
           ELSE IF Z.ndim # 2 THEN fails("AxisError")
           ELSE IF n < 2 THEN fails("ValueError")
           ELSE Returned(estimateConditionalQ(
                             Y, Z, Matrix([i \in 0..(n - 1) |-> <<>>]),
                             "nn_index_X"))
       ELSE IF n # ALen(X.a) \/ n # ALen(Z.a) THEN fails("ValueError")
       ELSE IF n < 2 THEN fails("ValueError")
       ELSE estimateConditionalT(Y, Z, X)

(***************************************************************************)
(* Inputs of the calls                                                     *)
(***************************************************************************)
ReportLists ==
    {None} \cup {Some(l) : l \in UNION {[1..n -> MetricNames] :
                                            n \in 0..MaxReport}}

RequestSets == {S \in SUBSET MetricNames : Cardinality(S) <= MaxRequested}

EstimatorNames == {"LinearDML", "CausalForestDML"}
ScoreValues == {1, 3, 7}
\* the metrics a scores dict is ranked on
RankMetrics ==
    {"energy_distance", "psw_energy_distance", "frobenius_norm", "codec",
     "policy_risk", "erupt", "qini"}

\* the records a scores dict may hold when it is ranked on `metric`
ScoreRecords(metric) ==
    {n @@ v :
        n \in {EmptyDict} \cup {"estimator_name" :> e : e \in EstimatorNames},
        v \in {EmptyDict} \cup {metric :> x : x \in ScoreValues}}

ScoreLists(metric) ==
    UNION {[1..n -> ScoreRecords(metric)] : n \in 0..MaxScores}

Absent == [exists |-> FALSE, fits |-> 0, arms |-> 1]

(***************************************************************************)
(* Records that make_scores returned, as a scores dict holds them: the     *)
(* dict make_scores built for one requested metric on a backdoor Scorer    *)
(* with a scalar ATE, with the "estimator_name" of the trial, the value    *)
(* of the metric being the float it stands for.                            *)
(***************************************************************************)
\* np.inf as min and max compare it: above every finite value
Infinity == 9
FiniteValues == {1, 3}

\* the float of a metric value v: the sentinel it is, or else x
FloatOf(v, x) ==
    IF v.fn = "inf" THEN Infinity ELSE IF v.fn = "zero" THEN 0 ELSE x

\* a dataframe with a control row and a treated row
ScoredDfs ==
    {[cols |-> BaseCols \cup extra,
      rows |-> [i \in 1..2 |-> BaseRow(BaseCols \cup extra, i - 1)]] :
        extra \in {{}, {"random"}}}

\* the metrics with a degenerate-input sentinel
SentinelMetrics == {"frobenius_norm", "codec", "policy_risk"}

ScoredRecords(metric) ==
    {("estimator_name" :> e)
        @@ [k \in DOMAIN r.ret |->
               IF k = metric THEN FloatOf(r.ret[k], x) ELSE r.ret[k]] :
        e \in EstimatorNames, x \in FiniteValues,
        r \in {t \in {make_scores("backdoor",
                                  [exists |-> TRUE, fits |-> 1, arms |-> 1],
                                  est, df, {metric}, ok) :
                          est \in {u \in Estimates : u.treatment_is_str},
                          df \in ScoredDfs, ok \in BOOLEAN} :
                  t.raised = "none"}}

ScoredLists(metric) ==
    UNION {[1..n -> ScoredRecords(metric)] : n \in 0..MaxScores}

(***************************************************************************)
(* Initial state: no Scorer constructed yet                                *)
(***************************************************************************)
Init ==
    /\ pc = "new"
    /\ problem = "backdoor"
    /\ multivalue = FALSE
    /\ psw_estimator = Absent
    /\ op = "none"
    /\ args = None
    /\ ret = None
    /\ raised = "none"
    /\ warnings = 0
    /\ caller_df = NoDf
    /\ pm_reads = 0
    /\ swallowed = {}
    /\ recon = 0
    /\ locals = None

(***************************************************************************)
(* Scorer.__init__(causal_model, propensity_model, problem, multivalue)    *)
(* For "backdoor" the weighting estimator is fitted by estimate_effect,    *)
(* which also fits its propensity model; arms is the number of treatment   *)
(* values other than the control value in the training data.  fit_ok =     *)
(* FALSE is the case where the fitted estimator lacks                      *)
(* estimator.propensity_model and ValueError is raised.                    *)
(***************************************************************************)
Construct(p, mv, arms, fit_ok) ==
    /\ pc = "new"
    /\ op = "none"
    /\ problem' = p
    /\ multivalue' = mv
    /\ op' = "__init__"
    /\ args' = [problem |-> p, multivalue |-> mv]
    /\ ret' = None
    /\ warnings' = 0
    /\ pm_reads' = 0
    /\ swallowed' = {}
    /\ recon' = 0
    /\ locals' = None
    /\ caller_df' = NoDf
    /\ IF p = "backdoor"
       THEN /\ psw_estimator' = [exists |-> TRUE, fits |-> 1, arms |-> arms]
            /\ raised' = IF fit_ok THEN "none" ELSE "ValueError"
            /\ pc' = IF fit_ok THEN "ready" ELSE "failed"
       ELSE /\ psw_estimator' = Absent
            /\ raised' = "none"
            /\ pc' = "ready"

\* a call on the Scorer with result r
MethodCall(name, a, result) ==
    /\ pc = "ready"
    /\ pc' = "called"
    /\ op' = name
    /\ args' = a
    /\ \E r \in {result} :
          /\ ret' = r.ret
          /\ raised' = r.raised
          /\ warnings' = IF HasKey(r, "warnings") THEN r.warnings ELSE 0
          /\ caller_df' = IF HasKey(r, "df") THEN r.df ELSE NoDf
          /\ pm_reads' = IF HasKey(r, "reads") THEN r.reads ELSE 0
          /\ swallowed' = IF HasKey(r, "swallowed") THEN r.swallowed ELSE {}
          /\ recon' = IF HasKey(r, "recon") THEN r.recon ELSE 0
          /\ psw_estimator' = IF HasKey(r, "psw") THEN r.psw
                              ELSE psw_estimator
    /\ UNCHANGED <<problem, multivalue, locals>>

ResolveMetric(metric) ==
    MethodCall("resolve_metric", [metric |-> metric],
               resolve_metric(problem, multivalue, metric))

ResolveReportedMetrics(metrics_to_report, scoring_metric) ==
    MethodCall("resolve_reported_metrics",
               [metrics_to_report |-> metrics_to_report,
                scoring_metric |-> scoring_metric],
               resolve_reported_metrics(problem, multivalue,
                                        metrics_to_report, scoring_metric))

EnergyDistanceScore(est, df) ==
    MethodCall("energy_distance_score", [estimate |-> est, df |-> df],
               energy_distance_score(est, df))

FrobeniusNormScore(est, df) ==
    MethodCall("frobenius_norm_score", [estimate |-> est, df |-> df],
               frobenius_norm_score(psw_estimator, est, df))

PswEnergyDistance(est, df) ==
    MethodCall("psw_energy_distance", [estimate |-> est, df |-> df],
               psw_energy_distance(psw_estimator, est, df))

PolicyRiskScore(est, df, predict_ok) ==
    MethodCall("policy_risk_score",
               [estimate |-> est, df |-> df, predict_ok |-> predict_ok],
               policy_risk_score(psw_estimator, est, df, predict_ok))

CodecScore(est, df) ==
    MethodCall("codec_score", [estimate |-> est, df |-> df],
               codec_score(est, df))

MakeScores(est, df, metrics_to_report, predict_ok) ==
    MethodCall("make_scores",
               [estimate |-> est, df |-> df,
                metrics_to_report |-> metrics_to_report,
                predict_ok |-> predict_ok],
               make_scores(problem, psw_estimator, est, df,
                           metrics_to_report, predict_ok))

(***************************************************************************)
(* Scorer.best_score_by_estimator is a static method of the class: it is   *)
(* called without a Scorer.                                                *)
(***************************************************************************)
BestScoreByEstimator(scores, metric) ==
    /\ pc = "new"
    /\ op = "none"
    /\ \E r \in {best_score_by_estimator(scores, metric)} :
          /\ ret' = r.ret
          /\ raised' = r.raised
    /\ op' = "best_score_by_estimator"
    /\ args' = [scores |-> scores, metric |-> metric]
    /\ UNCHANGED <<pc, problem, multivalue, psw_estimator, warnings,
                   caller_df, pm_reads, swallowed, recon, locals>>

\* The caller has taken the outcome of the call; the Scorer is idle again.
Return ==
    /\ \/ pc = "called"
       \/ pc = "new" /\ op # "none"
    /\ pc' = IF pc = "called" THEN "ready" ELSE pc
    /\ op' = "none"
    /\ args' = None
    /\ ret' = None
    /\ raised' = "none"
    /\ warnings' = 0
    /\ caller_df' = NoDf
    /\ pm_reads' = 0
    /\ swallowed' = {}
    /\ recon' = 0
    /\ locals' = None
    /\ UNCHANGED <<problem, multivalue, psw_estimator>>

(***************************************************************************)
(* Calls on arrays and on dataframes whose values are followed.  They are  *)
(* made on a Scorer for a backdoor problem with a binary treatment.        *)
(***************************************************************************)
Arrays(n, V) == [0..(n - 1) -> V]

OutcomeValues == {0, 1, 2}
PointValues == {0, 1, 2}
PropensityValues == {Rat(0, 1), Rat(1, 2), Rat(1, 5)}

\* dataframes with the columns T, Y, X and Z in which the columns `vary`
\* take the values 0 and 1 and the others are 0
ValueRows(vary) ==
    {r \in [{"T", "Y", "X", "Z"} -> {0, 1}] :
        \A c \in {"T", "Y", "X", "Z"} \ vary : r[c] = 0}

ValueDfs(vary) ==
    {[cols |-> {"T", "Y", "X", "Z"}, rows |-> rs] :
        rs \in UNION {[1..n -> ValueRows(vary)] : n \in 0..MaxValueRows}}

\* estimates of either identification method, with a treatment name that
\* is a str or a list of two names
ValueEstimates ==
    {[treatment_is_str |-> b,
      treatment_name |-> IF b THEN <<"T">> ELSE <<"T", "T2">>,
      outcome_name |-> "Y", effect_modifier_names |-> {"X"},
      cate_std |-> sd, identifier_method |-> m,
      estimating_instrument_names |->
          IF m = "iv" THEN <<"Z", "Z2">> ELSE <<>>,
      effect_tt |-> tt] :
        b \in BOOLEAN, sd \in {2}, m \in {"backdoor", "iv"},
        tt \in [ModifierValues -> {0, 1}]}

\* the estimates given to frobenius_norm_score on a dataframe whose values
\* are followed
FrobeniusEstimates ==
    {e \in ValueEstimates : e.identifier_method = "backdoor"}

ValueInit ==
    /\ pc = "ready"
    /\ problem = "backdoor"
    /\ multivalue = FALSE
    /\ psw_estimator = [exists |-> TRUE, fits |-> 1, arms |-> 1]
    /\ op = "none"
    /\ args = None
    /\ ret = None
    /\ raised = "none"
    /\ warnings = 0
    /\ caller_df = NoDf
    /\ pm_reads = 0
    /\ swallowed = {}
    /\ recon = 0
    /\ locals = None

\* a call of a function on arrays; r is the outcome it has
ArrayCall(name, a, r) ==
    /\ pc = "ready"
    /\ pc' = "called"
    /\ op' = name
    /\ args' = a
    /\ ret' = r.ret
    /\ raised' = r.raised
    /\ locals' = IF HasKey(r, "locals") THEN r.locals ELSE None
    /\ warnings' = 0
    /\ caller_df' = NoDf
    /\ pm_reads' = 0
    /\ swallowed' = {}
    /\ recon' = 0
    /\ UNCHANGED <<problem, multivalue, psw_estimator>>

PotentialOutcomes(est, df) ==
    \E r \in {Y0_X_potential_outcomes(est, df)} :
        MethodCall("_Y0_X_potential_outcomes", [estimate |-> est, df |-> df],
                   [ret |-> <<r.Y0X, r.treatment_name, r.split_test_by>>,
                    raised |-> "none", df |-> r.df, recon |-> 1])

NaiveAte(treatment, outcome) ==
    ArrayCall("naive_ate", [treatment |-> treatment, outcome |-> outcome],
              naive_ate(treatment, outcome))

PolicyRiskValue(treatment, outcome, policy_treatment, propensity_scores) ==
    ArrayCall("policy_risk_value",
              [treatment |-> treatment, outcome |-> outcome,
               policy_treatment |-> policy_treatment,
               propensity_scores |-> propensity_scores],
              policy_risk_value(treatment, outcome, policy_treatment,
                                propensity_scores))

EstimateConditionalS(Y, X) ==
    \E r \in estimateConditionalS(Y, X) :
        ArrayCall("estimateConditionalS", [Y |-> Y, X |-> X], r)

EstimateConditionalQ(Y, X, Z, local) ==
    \E r \in estimateConditionalQ(Y, X, Z, local) :
        ArrayCall("estimateConditionalQ", [Y |-> Y, X |-> X, Z |-> Z], r)

Codec(Y, Z, X) ==
    \E r \in codec(Y, Z, X) :
        ArrayCall("codec", [Y |-> Y, Z |-> Z, X |-> X], r)

\* a column matrix of the values of a vector
Column(a) == Matrix([i \in DOMAIN a |-> <<a[i]>>])

\* the responses given to the CODEC functions: all values distinct, or the
\* first two equal (for n = 1 the two are one)
Responses(n) ==
    {[i \in 0..(n - 1) |-> i],
     [i \in 0..(n - 1) |-> IF i = 0 THEN 0 ELSE i - 1]}

\* columns of 0 and 1 in non-decreasing order
SortedColumns(n) ==
    {z \in Arrays(n, TreatmentValues) : \A i \in 0..(n - 2) : z[i] <= z[i + 1]}

\* the predictors given to codec: the vector z or the column matrix of it
PredictorKinds == {"vector", "column"}
Predictor(kind, z) == IF kind = "vector" THEN Vector(z) ELSE Column(z)

\* the conditioning sets given to codec with the response Y: none, Y as a
\* column matrix, Y as it is
ConditioningKinds == {"None", "Y column", "Y vector"}
ConditioningSet(kind, Y) ==
    CASE kind = "None" -> None
      [] kind = "Y column" -> Column(Y)
      [] kind = "Y vector" -> Vector(Y)

ValueNext ==
    \/ /\ pc = "ready"
       /\ \E est \in ValueEstimates, df \in ValueDfs({"Y", "X"}) :
             PotentialOutcomes(est, df)
    \/ /\ pc = "ready"
       /\ \E est \in FrobeniusEstimates, df \in ValueDfs({"T", "X"}) :
             FrobeniusNormScore(est, df)
    \/ /\ pc = "ready"
       /\ \E n \in 0..MaxValueRows :
             \E treatment \in Arrays(n, TreatmentValues),
                outcome \in Arrays(n, OutcomeValues) :
                 NaiveAte(treatment, outcome)
    \/ /\ pc = "ready"
       /\ \E n \in 0..MaxPolicyRows :
             \E treatment \in Arrays(n, TreatmentValues),
                outcome \in Arrays(n, {0, 1}),
                policy_treatment \in Arrays(n, {0, 1}),
                propensity_scores \in Arrays(n, PropensityValues) :
                 PolicyRiskValue(treatment, outcome, policy_treatment,
                                 propensity_scores)
    \/ Return

ValueSpec == ValueInit /\ [][ValueNext]_vars

CodecNext ==
    \/ /\ pc = "ready"
       /\ \E n \in 1..MaxPoints :
             \E Y \in Responses(n), x \in Arrays(n, PointValues) :
                 EstimateConditionalS(Y, Column(x))
    \/ /\ pc = "ready"
       /\ \E n \in 1..MaxPoints :
             \E Y \in Responses(n), x \in Arrays(n, PointValues),
                z \in SortedColumns(n) :
                 \E local \in {"nn_index_X", "nn_index_W"} :
                     EstimateConditionalQ(Y, Column(x), Vector(z), local)
    \/ /\ pc = "ready"
       /\ \E n \in 1..MaxPoints :
             \E Y \in Responses(n), z \in Arrays(n, TreatmentValues) :
                 \E zk \in PredictorKinds, xk \in ConditioningKinds :
                     Codec(Y, Predictor(zk, z), ConditioningSet(xk, Y))
    \/ Return

CodecSpec == ValueInit /\ [][CodecNext]_vars

\* The guards on pc stand before the quantifiers so that the inputs are
\* enumerated only where the call is possible.
Next ==
    \/ /\ pc = "new"
       /\ \E p \in Problems, mv \in BOOLEAN, arms \in {1, 2},
             fit_ok \in BOOLEAN :
             Construct(p, mv, arms, fit_ok)
    \/ /\ pc = "ready"
       /\ \E m \in MetricNames : ResolveMetric(m)
    \/ /\ pc = "ready"
       /\ \E l \in ReportLists, m \in MetricNames :
             ResolveReportedMetrics(l, m)
    \/ /\ pc = "ready"
       /\ \E est \in Estimates, df \in InputDfs :
             EnergyDistanceScore(est, df)
    \/ /\ pc = "ready"
       /\ \E est \in Estimates, df \in InputDfs :
             FrobeniusNormScore(est, df)
    \/ /\ pc = "ready"
       /\ \E est \in Estimates, df \in InputDfs :
             PswEnergyDistance(est, df)
    \/ /\ pc = "ready"
       /\ \E est \in Estimates, df \in InputDfs, ok \in BOOLEAN :
             PolicyRiskScore(est, df, ok)
    \/ /\ pc = "ready"
       /\ \E est \in Estimates, df \in InputDfs : CodecScore(est, df)
    \/ /\ pc = "ready"
       /\ \E est \in Estimates, df \in InputDfs, ms \in RequestSets :
             \E ok \in (IF "policy_risk" \in ms THEN BOOLEAN ELSE {TRUE}) :
                 MakeScores(est, df, ms, ok)
    \/ /\ pc = "new"
       /\ op = "none"
       /\ \E m \in RankMetrics : \E scores \in ScoreLists(m) :
             BestScoreByEstimator(scores, m)
    \/ Return

Spec == Init /\ [][Next]_vars

\* best_score_by_estimator on records that make_scores returned
RankNext ==
    \/ /\ pc = "new"
       /\ op = "none"
       /\ \E m \in SentinelMetrics : \E scores \in ScoredLists(m) :
             BestScoreByEstimator(scores, m)
    \/ Return

RankSpec == Init /\ [][RankNext]_vars

(***************************************************************************)
(* Properties                                                              *)
(***************************************************************************)

MetricOps ==
    {"energy_distance_score", "psw_energy_distance", "frobenius_norm_score",
     "codec_score", "policy_risk_score", "make_scores"}

Requested == ToSet(args.metrics_to_report.list) \cup {args.scoring_metric}

\* the scoring metrics of a backdoor problem with a binary treatment,
\* as documented
BackdoorScoringMetrics ==
    {"erupt", "norm_erupt", "prob_erupt", "policy_risk", "qini", "auc",
     "energy_distance", "psw_energy_distance", "frobenius_norm", "codec"}

(***************************************************************************)
(* C1: on a Scorer with problem "backdoor" and multivalue=False,           *)
(* resolve_metric(m) returns "energy_distance" with exactly one warning    *)
(* when m is not a supported scoring metric ("ate" included), and returns  *)
(* m with no warning when it is.                                           *)
(***************************************************************************)
C1_ResolveMetricDefault ==
    (op = "resolve_metric" /\ problem = "backdoor" /\ ~multivalue) =>
        /\ raised = "none"
        /\ IF args.metric \in BackdoorScoringMetrics
           THEN ret = args.metric /\ warnings = 0
           ELSE ret = "energy_distance" /\ warnings = 1

C1_Witness ==
    /\ op = "resolve_metric" /\ problem = "backdoor" /\ ~multivalue
    /\ args.metric = "ate"
    /\ raised = "none" /\ ret = "energy_distance" /\ warnings = 1

(***************************************************************************)
(* C2: when best_score_by_estimator returns, the result has exactly one    *)
(* entry per distinct estimator_name of the input; the entry is one of the *)
(* input records of that name and has the least value of the metric in     *)
(* its family for energy_distance, psw_energy_distance, frobenius_norm,    *)
(* codec and policy_risk, and the greatest value for any other metric.     *)
(***************************************************************************)
C2_Family(name) ==
    {args.scores[i] : i \in {j \in 1..Len(args.scores) :
                               args.scores[j]["estimator_name"] = name}}

C2_BestPerFamily ==
    (op = "best_score_by_estimator" /\ raised = "none") =>
        LET m == args.metric
            lower == m \in {"energy_distance", "psw_energy_distance",
                            "frobenius_norm", "codec", "policy_risk"}
        IN /\ DOMAIN ret = {args.scores[i]["estimator_name"] :
                               i \in 1..Len(args.scores)}
           /\ \A name \in DOMAIN ret :
                 /\ ret[name] \in C2_Family(name)
                 /\ \A v \in C2_Family(name) :
                       IF lower THEN ret[name][m] <= v[m]
                       ELSE ret[name][m] >= v[m]

C2_Witness ==
    /\ op = "best_score_by_estimator" /\ raised = "none"
    /\ args.metric = "policy_risk"
    /\ Len(args.scores) = 3
    /\ DOMAIN ret = {"LinearDML", "CausalForestDML"}
    /\ ret["LinearDML"]["policy_risk"] = 3
    /\ ret["CausalForestDML"]["policy_risk"] = 1
    /\ \E i \in 1..3 : /\ args.scores[i]["estimator_name"] = "LinearDML"
                       /\ args.scores[i]["policy_risk"] = 7

(***************************************************************************)
(* C3: every record make_scores returns on a backdoor Scorer holds a       *)
(* "values" table with as many rows as the dataframe passed in, whatever   *)
(* was requested and however many treatment arms there are.                *)
(***************************************************************************)
C3_ValuesRows ==
    (op = "make_scores" /\ problem = "backdoor" /\ raised = "none") =>
        /\ HasKey(ret, "values")
        /\ Len(ret["values"].rows) = Len(args.df.rows)

C3_Witness ==
    /\ op = "make_scores" /\ problem = "backdoor" /\ raised = "none"
    /\ psw_estimator.arms = 2
    /\ Len(args.df.rows) = 2
    /\ "frobenius_norm" \in args.metrics_to_report
    /\ HasKey(ret, "values") /\ Len(ret["values"].rows) = 2

(***************************************************************************)
(* C4: no metric function changes the dataframe it is given: after the     *)
(* call the caller's dataframe has the columns and rows it had before.     *)
(***************************************************************************)
C4_NoMutation ==
    (op \in MetricOps) => caller_df = args.df

(***************************************************************************)
(* C5: when make_scores on a backdoor Scorer reaches the policy-risk        *)
(* computation and policy_risk_score raises, the call still returns a      *)
(* record: the record has no "policy_risk" key and is the record the same  *)
(* call without "policy_risk" in the request returns, so every other       *)
(* requested metric has the value it would have had.                       *)
(***************************************************************************)
\* The statements before the try block ran without an exception and
\* policy_risk_score raises on the arguments of the call.  Whether it raises
\* depends on the estimate, the propensity model and the "random" column,
\* none of which the statements before it change.
C5_PolicyRiskRaises ==
    /\ "policy_risk" \in args.metrics_to_report
    /\ make_scores(problem, psw_estimator, args.estimate, args.df,
                   args.metrics_to_report
                       \cap {"erupt", "norm_erupt", "prob_erupt",
                             "frobenius_norm"},
                   TRUE).raised = "none"
    /\ policy_risk_score(psw_estimator, args.estimate,
                         CopyResetIndex(args.df),
                         args.predict_ok).raised # "none"

C6_ResolveNeverRaises ==
    (op \in {"resolve_metric", "resolve_reported_metrics"}) =>
        raised = "none"

(***************************************************************************)
(* C7: when resolve_reported_metrics returns for a list, the result is the *)
(* sorted duplicate-free list of the names of metrics_to_report and the    *)
(* scoring metric that are in the catalog (scores_only=False) of the       *)
(* Scorer, with one warning per dropped name and no name added; for None   *)
(* it is the catalog list itself.                                          *)
(***************************************************************************)
C7_ReportedFiltered ==
    (op = "resolve_reported_metrics" /\ raised = "none") =>
        LET catalog == supported_metrics(problem, multivalue, FALSE) IN
        IF args.metrics_to_report.none
        THEN ret = catalog /\ warnings = 0
        ELSE /\ ~ret.none
             /\ \A i \in 1..(Len(ret.list) - 1) :
                   StrKey(ret.list[i]) < StrKey(ret.list[i + 1])
             /\ ToSet(ret.list) = Requested \cap ToSet(catalog.list)
             /\ warnings = Cardinality(Requested \ ToSet(catalog.list))

C7_Witness ==
    /\ op = "resolve_reported_metrics" /\ raised = "none"
    /\ problem = "backdoor" /\ ~multivalue
    /\ args.metrics_to_report = Some(<<"qini", "bogus_metric">>)
    /\ args.scoring_metric = "auc"
    /\ ret = Some(<<"auc", "qini">>)
    /\ warnings = 1

(***************************************************************************)
(* C8: best_score_by_estimator raises ValueError and returns nothing when  *)
(* some record of the input has no "estimator_name", wherever the record   *)
(* stands and whatever the metric.                                         *)
(***************************************************************************)
C8_MissingNameFatal ==
    (/\ op = "best_score_by_estimator"
     /\ \E i \in 1..Len(args.scores) :
           ~HasKey(args.scores[i], "estimator_name")) =>
        raised = "ValueError" /\ IsNone(ret)

C8_Witness ==
    /\ op = "best_score_by_estimator"
    /\ Len(args.scores) = 3
    /\ HasKey(args.scores[1], "estimator_name")
    /\ HasKey(args.scores[2], "estimator_name")
    /\ ~HasKey(args.scores[3], "estimator_name")
    /\ ~HasKey(args.scores[1], args.metric)
    /\ raised = "ValueError" /\ IsNone(ret)

(***************************************************************************)
(* C9: on a Scorer with problem "backdoor" or "iv", a make_scores call in  *)
(* which nothing raises returns a record that holds every requested metric *)
(* that the catalog (scores_only=False) lists for the Scorer.              *)
(***************************************************************************)
C9_CatalogMetricsComputed ==
    (/\ op = "make_scores" /\ problem \in {"backdoor", "iv"}
     /\ raised = "none" /\ swallowed = {}) =>
        \A m \in args.metrics_to_report
                    \cap ToSet(supported_metrics(problem, multivalue,
                                                 FALSE).list) :
            HasKey(ret, m)

(***************************************************************************)
(* C10: the weighting estimator of a backdoor Scorer has been fitted       *)
(* exactly once when the constructor is done, and no later call fits it    *)
(* again or replaces it.                                                   *)
(***************************************************************************)
C10_FittedOnce ==
    /\ [](pc \in {"ready", "called"} /\ problem = "backdoor"
            => psw_estimator.exists /\ psw_estimator.fits = 1)
    /\ [][pc # "new" => psw_estimator' = psw_estimator]_vars

C10_Witness ==
    /\ pc = "called" /\ problem = "backdoor"
    /\ op = "psw_energy_distance" /\ raised = "none"
    /\ pm_reads = 2
    /\ psw_estimator.exists /\ psw_estimator.fits = 1

\* the k-th smallest member of a set of row numbers, k counted from 1
KthRow(S, k) == CHOOSE i \in S : Cardinality({j \in S : j < i}) = k - 1

(***************************************************************************)
(* C11: frobenius_norm_score on groups of unequal size uses the first      *)
(* min(len(treated), len(control)) rows of each group, in dataset order,   *)
(* with the propensity weights of those same rows, and returns +infinity   *)
(* when the treated or the control group has no row.                       *)
(***************************************************************************)
C11_LeadingRows ==
    (op = "frobenius_norm_score" /\ args.estimate.cate_std > sd_threshold) =>
        LET rows == args.df.rows
            est == args.estimate
            treated == {i \in 1..Len(rows) : rows[i][est.treatment_name[1]] = 1}
            control == {i \in 1..Len(rows) : rows[i][est.treatment_name[1]] = 0}
            m == IF Cardinality(treated) <= Cardinality(control)
                 THEN Cardinality(treated) ELSE Cardinality(control)
            point(i) == [X |-> rows[i]["X"],
                         yhat |-> rows[i]["Y"] - est.effect_tt[rows[i]["X"]]]
            weight(i, c) == [x |-> [X |-> rows[i]["X"]], class |-> c]
        IN /\ raised = "none"
           /\ IF treated = {} \/ control = {} THEN ret.fn = "inf"
              ELSE /\ ret.fn = "frobenius_norm"
                   /\ Len(ret.Y0X_1) = m /\ Len(ret.Y0X_0) = m
                   /\ Len(ret.YX_1_psw) = m /\ Len(ret.YX_0_psw) = m
                   /\ \A k \in 1..m :
                         /\ ret.Y0X_1[k] = point(KthRow(treated, k))
                         /\ ret.Y0X_0[k] = point(KthRow(control, k))
                         /\ ret.YX_1_psw[k] = weight(KthRow(treated, k), 1)
                         /\ ret.YX_0_psw[k] = weight(KthRow(control, k), 0)

\* two treated rows that differ, one control row: the second treated row is
\* left out
C11_Witness ==
    /\ op = "frobenius_norm_score" /\ raised = "none"
    /\ Len(args.df.rows) = 3
    /\ args.df.rows[1]["T"] = 1 /\ args.df.rows[1]["X"] = 0
    /\ args.df.rows[2]["T"] = 0
    /\ args.df.rows[3]["T"] = 1 /\ args.df.rows[3]["X"] = 1
    /\ ret.fn = "frobenius_norm"
    /\ Len(ret.Y0X_1) = 1 /\ ret.Y0X_1[1]["X"] = 0
    /\ ret.YX_1_psw[1].x["X"] = 0

(***************************************************************************)
(* C12: policy_risk_score returns 0 and raises nothing when the standard   *)
(* deviation of the CATE estimates is at or below sd_threshold; the        *)
(* propensity model has not been consulted, and the dataset need not have  *)
(* a "random" column.                                                      *)
(***************************************************************************)
C12_ZeroBelowThreshold ==
    (op = "policy_risk_score" /\ args.estimate.cate_std <= sd_threshold) =>
        /\ raised = "none"
        /\ ret = Zero
        /\ pm_reads = 0

C12_Witness ==
    /\ op = "policy_risk_score"
    /\ args.estimate.cate_std = sd_threshold
    /\ "random" \notin args.df.cols
    /\ raised = "none" /\ ret = Zero /\ pm_reads = 0

(***************************************************************************)
(* C13: energy_distance_score, psw_energy_distance, frobenius_norm_score   *)
(* and codec_score each return +infinity when the standard deviation of    *)
(* the CATE estimates is at or below 0.01.                                 *)
(***************************************************************************)
C13_InfBelowThreshold ==
    (/\ op \in {"energy_distance_score", "psw_energy_distance",
                "frobenius_norm_score", "codec_score"}
     /\ problem = "backdoor"
     /\ args.estimate.cate_std <= sd_threshold) =>
        /\ raised = "none"
        /\ ret.fn = "inf"

(***************************************************************************)
(* C14: energy_distance_score and psw_energy_distance return +infinity,    *)
(* without raising, when the treated group or the control group of the     *)
(* split on split_test_by has no row.                                      *)
(***************************************************************************)
C14_InfOnEmptyGroup ==
    (/\ op \in {"energy_distance_score", "psw_energy_distance"}
     /\ problem = "backdoor"
     /\ \E v \in TreatmentValues :
           \A i \in 1..Len(args.df.rows) : args.df.rows[i]["T"] # v) =>
        /\ raised = "none"
        /\ ret.fn = "inf"

(***************************************************************************)
(* C15: with a policy that assigns every row its realized treatment, the   *)
(* policy risk is 1 - sum(outcome * weight) / sum(weight), the weights     *)
(* being the inverse of the clipped propensity of the realized treatment.  *)
(***************************************************************************)
C15_MatchedPolicy ==
    (/\ op = "policy_risk_value"
     /\ args.policy_treatment = args.treatment
     /\ \E i \in DOMAIN args.treatment : args.treatment[i] = 1
     /\ \E i \in DOMAIN args.treatment : args.treatment[i] = 0) =>
        LET w == ipw_weights(args.treatment, args.propensity_scores)
            yw == [i \in DOMAIN w |-> RatMul(Rat(args.outcome[i], 1), w[i])]
        IN ret = RatSub(Rat(1, 1), RatDiv(RatSum(yw), RatSum(w)))

(***************************************************************************)
(* C16: for a response Y of at least 3 rows and any Z, codec(Y, Z, X) with *)
(* X = Y returns exactly 1.                                                *)
(***************************************************************************)
C16_PerfectConditioning ==
    (/\ op = "codec"
     /\ ALen(args.Y) >= 3
     /\ ~IsNone(args.X)
     /\ args.X.ndim = 2
     /\ \A i \in DOMAIN args.Y : args.X.a[i] = <<args.Y[i]>>) =>
        /\ raised = "none"
        /\ ret = Rat(1, 1)

(***************************************************************************)
(* C17: naive_ate returns as first component the mean outcome of the rows  *)
(* with treatment 1 minus the mean outcome of the rows with treatment 0    *)
(* (not a number when one of the two groups has no row), and as third      *)
(* component the number of rows.                                           *)
(***************************************************************************)
C17_NaiveAte ==
    (op = "naive_ate") =>
        LET T == args.treatment
            Y == args.outcome
            n == Cardinality(DOMAIN T)
            total[k \in 0..n, v \in TreatmentValues] ==
                IF k = 0 THEN 0
                ELSE total[k - 1, v] + (IF T[k - 1] = v THEN Y[k - 1] ELSE 0)
            count(v) == Cardinality({i \in DOMAIN T : T[i] = v})
        IN /\ raised = "none"
           /\ ret[3] = n
           /\ IF count(1) = 0 \/ count(0) = 0 THEN ret[1].den = 0
              ELSE /\ ret[1].den > 0
                   /\ ret[1].num * count(1) * count(0)
                          = (total[n, 1] * count(0) - total[n, 0] * count(1))
                                * ret[1].den

\* treated outcomes 1 and 2, control outcome 0: the difference is 3/2
C17_Witness ==
    /\ op = "naive_ate" /\ raised = "none"
    /\ DOMAIN args.treatment = 0..2
    /\ args.treatment[0] = 1 /\ args.treatment[1] = 0 /\ args.treatment[2] = 1
    /\ args.outcome[0] = 1 /\ args.outcome[1] = 0 /\ args.outcome[2] = 2
    /\ ret[1] = [num |-> 3, den |-> 2]
    /\ ret[3] = 3

(***************************************************************************)
(* C18: _Y0_X_potential_outcomes returns the table with, on every row, dy  *)
(* the effect_tt value and yhat = outcome - dy; the treatment column name  *)
(* (the first one of a list); and split_test_by: the first instrument name *)
(* for the method "iv", the treatment column name otherwise.               *)
(***************************************************************************)
C18_PotentialOutcomes ==
    (op = "_Y0_X_potential_outcomes") =>
        LET est == args.estimate
            rows == args.df.rows
        IN /\ raised = "none"
           /\ Len(ret[1].rows) = Len(rows)
           /\ \A i \in 1..Len(rows) :
                 /\ ret[1].rows[i]["dy"] = est.effect_tt[rows[i]["X"]]
                 /\ ret[1].rows[i]["yhat"]
                        = rows[i][est.outcome_name] - ret[1].rows[i]["dy"]
                 /\ \A c \in args.df.cols : ret[1].rows[i][c] = rows[i][c]
           /\ ret[2] = est.treatment_name[1]
           /\ ret[3] = IF est.identifier_method = "iv"
                       THEN est.estimating_instrument_names[1]
                       ELSE est.treatment_name[1]

C18_Witness ==
    /\ op = "_Y0_X_potential_outcomes" /\ raised = "none"
    /\ args.estimate.identifier_method = "iv"
    /\ ~args.estimate.treatment_is_str
    /\ ret[2] = "T" /\ ret[3] = "Z"
    /\ Len(args.df.rows) = 2
    /\ args.df.rows[1]["Y"] = 1 /\ args.df.rows[1]["X"] = 1
    /\ ret[1].rows[1]["dy"] = 1 /\ ret[1].rows[1]["yhat"] = 0
    /\ args.df.rows[2]["Y"] = 1 /\ args.df.rows[2]["X"] = 0
    /\ ret[1].rows[2]["dy"] = 0 /\ ret[1].rows[2]["yhat"] = 1

\* the points of the joint search of estimateConditionalQ(Y, X, Z)
JointPoints == [i \in DOMAIN args.X.a |-> args.X.a[i] \o <<args.Z.a[i]>>]

\* the points that have an exact duplicate among the points P
Duplicated(P) == {i \in DOMAIN P : \E j \in DOMAIN P : j # i /\ P[j] = P[i]}

Tied(P) ==
    {i \in DOMAIN P \ Duplicated(P) :
        \E j, k \in DOMAIN P \ {i} :
            /\ j # k
            /\ SqDist(P[i], P[j]) = SqDist(P[i], P[k])
            /\ \A l \in DOMAIN P \ {i} : SqDist(P[i], P[j]) <= SqDist(P[i], P[l])}

\* nn gives the point i of P another point, at the least distance from it
Nearest(P, nn, i) ==
    /\ nn[i] # i
    /\ \A l \in DOMAIN P \ {i} : SqDist(P[i], P[nn[i]]) <= SqDist(P[i], P[l])

(***************************************************************************)
(* C20: in estimateConditionalQ on at least 3 points, in the search on X   *)
(* and in the search on [X, Z] alike, every point without duplicate whose  *)
(* two nearest neighbours are equally far gets, whatever is drawn, a       *)
(* neighbour other than itself at the least distance in the space of that  *)
(* search, also when only the search on [X, Z] has such points.            *)
(***************************************************************************)
C20_TieNeighbours ==
    (op = "estimateConditionalQ" /\ ALen(args.Y) >= 3) =>
        /\ raised # "NameError"
        /\ HasKey(locals, "nn_index_X") =>
              \A i \in Tied(args.X.a) :
                  Nearest(args.X.a, locals.nn_index_X, i)
        /\ HasKey(locals, "nn_index_W") =>
              \A i \in Tied(JointPoints) :
                  Nearest(JointPoints, locals.nn_index_W, i)

(***************************************************************************)
(* C21: the rank vector R_Y = np.argsort(np.argsort(Y)), the same          *)
(* expression in estimateConditionalQ and estimateConditionalS and seen    *)
(* here where estimateConditionalS computes it, ranks with "max"           *)
(* tie-handling: rows with equal Y have the same rank, the highest         *)
(* position of their group (the number of rows with a value not above      *)
(* theirs, counted from 0 or from 1).                                      *)
(***************************************************************************)
C21_MaxRanks ==
    (op = "estimateConditionalS" /\ HasKey(locals, "R_Y")) =>
        LET Y == args.Y
            notAbove(i) == Cardinality({k \in DOMAIN Y : Y[k] <= Y[i]})
        IN /\ \A i, j \in DOMAIN Y :
                 Y[i] = Y[j] => locals.R_Y[i] = locals.R_Y[j]
           /\ \/ \A i \in DOMAIN Y : locals.R_Y[i] = notAbove(i)
              \/ \A i \in DOMAIN Y : locals.R_Y[i] = notAbove(i) - 1


(***************************************************************************)
(* C22: codec(Y, Z) without conditioning set (X = None), on at least 3     *)
(* rows, Y and Z of the same number of rows and without missing values,    *)
(* returns a number and raises nothing.                                    *)
(***************************************************************************)
C22_CodecWithoutConditioning ==
    (/\ op = "codec"
     /\ IsNone(args.X)
     /\ ALen(args.Y) >= 3
     /\ ALen(args.Z.a) = ALen(args.Y)) =>
        /\ raised = "none"
        /\ ~IsNone(ret)


(***************************************************************************)
(* C23: one make_scores call reconstructs the potential outcomes           *)
(* (evaluates effect_tt and assigns dy and yhat) at most once, whichever   *)
(* of energy_distance, psw_energy_distance, frobenius_norm and codec are   *)
(* requested.                                                              *)
(***************************************************************************)
C23_ReconstructOnce ==
    (op = "make_scores" /\ raised = "none") => recon <= 1


(***************************************************************************)
(* C24: whatever else is requested of make_scores, the conditioning set    *)
(* of the "codec" value is the set of the columns of the dataframe given   *)
(* other than the treatment, the outcome, "random" and "index"; dy and     *)
(* yhat are never in it.                                                   *)
(***************************************************************************)
C24_CodecConditioningSet ==
    (/\ op = "make_scores"
     /\ raised = "none"
     /\ HasKey(ret, "codec")
     /\ ret["codec"].fn = "codec") =>
        /\ ret["codec"].confounders =
              args.df.cols \ {ResolveTreatmentName(args.estimate),
                              args.estimate.outcome_name, "random", "index"}
        /\ ret["codec"].confounders \cap {"dy", "yhat"} = {}


(***************************************************************************)
(* C25: ranked on a lower-is-better metric, best_score_by_estimator never  *)
(* gives a family a record whose value is the sentinel make_scores stores  *)
(* for a degenerate input (np.inf for frobenius_norm and codec, 0 for      *)
(* policy_risk) when the family has a record with another value.           *)
(***************************************************************************)
Sentinel(metric) == IF metric = "policy_risk" THEN 0 ELSE Infinity

C25_SentinelNotBest ==
    (/\ op = "best_score_by_estimator"
     /\ raised = "none"
     /\ args.metric \in SentinelMetrics) =>
        LET m == args.metric
        IN \A name \in DOMAIN ret :
              (\E v \in C2_Family(name) : v[m] # Sentinel(m)) =>
                  ret[name][m] # Sentinel(m)

(***************************************************************************)
(* C26: given records that carry "estimator_name" and were returned by     *)
(* make_scores calls that requested "policy_risk" on a backdoor Scorer,    *)
(* best_score_by_estimator(scores, "policy_risk") raises nothing and       *)
(* returns one record per estimator family, also when a record has no      *)
(* "policy_risk" entry because make_scores swallowed the failure.          *)
(***************************************************************************)
C26_RanksMadeScores ==
    (/\ op = "best_score_by_estimator"
     /\ args.metric = "policy_risk"
     /\ \A i \in 1..Len(args.scores) :
           HasKey(args.scores[i], "estimator_name")) =>
        /\ raised = "none"
        /\ DOMAIN ret = {args.scores[i]["estimator_name"] :
                            i \in 1..Len(args.scores)}

====
